---------------------------- MODULE Spec2Model ----------------------------
(***************************************************************************)
(* BeerBot /api/decision (BullwhipBreakerPlus v1.1.0, api/decision.js).    *)
(*                                                                         *)
(* The endpoint is a request handler over module-level tables (PARAMS,     *)
(* ROLES).  Every request carries the whole weeks[] history; the handler   *)
(* answers with one order per role.                                        *)
(*                                                                         *)
(* Numbers.  A JavaScript number is modelled as a fixed-point number in    *)
(* thousandths: the integer n stands for n / Q.  A whole number is a       *)
(* multiple of Q.  Products and quotients are rounded to the nearest       *)
(* thousandth; Math.round is floor(x + 0.5) as in ECMAScript.  A double    *)
(* that falls just below a half (1.15 * 50 = 57.49999...) rounds down in   *)
(* JavaScript and up here, so an order can differ by one unit from the     *)
(* double computation; forecasts agree to within a few hundredths.         *)
(*                                                                         *)
(* JSON.  A JSON value is a record [t, v, s, f]: t is the type tag, v the  *)
(* payload of a number, s the payload of a string and f the members of an  *)
(* object (a function on its own keys) or the elements of an array (a      *)
(* sequence).                                                              *)
(***************************************************************************)
EXTENDS Integers, Sequences, FiniteSets, TLC

VARIABLES
    PARAMS,     \* the module-level parameter table (decision.js:22-55)
    pc,         \* "idle" | "received" | "responded"
    request,    \* the request being handled: [parse, body]
    response,   \* the JSON answer written by the handler
    ran,        \* the roles computeOrderForRole was called for, in call order
    trace,      \* per role, the locals of computeOrderForRole in that call
    served      \* the answers given so far, by request (the caller's log)

vars == <<PARAMS, pc, request, response, ran, trace, served>>

-----------------------------------------------------------------------------
(* Fixed-point arithmetic *)

Q == 10 ^ 3

Max(a, b) == IF a >= b THEN a ELSE b
Min(a, b) == IF a <= b THEN a ELSE b
Abs(a) == IF a < 0 THEN -a ELSE a

\* floor(a / b) for b > 0, also for negative a
FloorDiv(a, b) == IF a >= 0 THEN a \div b ELSE -((-a + b - 1) \div b)

\* a / b rounded to the nearest integer, halves up (b > 0)
RDiv(a, b) == FloorDiv(a + b \div 2, b)

\* x * y and x / y of two fixed-point numbers
Mul(x, y) == RDiv(x * y, Q)
Div(x, y) == RDiv(x * Q, y)

\* Math.round: the nearest whole number, halves towards +Infinity
Round(x) == FloorDiv(x + Q \div 2, Q) * Q

IsWhole(x) == x % Q = 0

RECURSIVE IsqrtIn(_, _, _)
IsqrtIn(n, lo, hi) ==
    IF lo >= hi THEN lo
    ELSE LET mid == (lo + hi + 1) \div 2
         IN  IF mid * mid <= n THEN IsqrtIn(n, mid, hi) ELSE IsqrtIn(n, lo, mid - 1)

\* Math.sqrt of a fixed-point number (x >= 0)
Sqrt(x) == IsqrtIn(x * Q, 0, 46340)

-----------------------------------------------------------------------------
(* JSON values *)

NoMembers == [k \in {} |-> 0]

JNum(n) == [t |-> "num", v |-> n, s |-> "", f |-> NoMembers]
JInf == [t |-> "nonfinite", v |-> 0, s |-> "", f |-> NoMembers]
JStr(str) == [t |-> "str", v |-> 0, s |-> str, f |-> NoMembers]
JNull == [t |-> "null", v |-> 0, s |-> "", f |-> NoMembers]
JBool(b) == [t |-> "bool", v |-> IF b THEN 1 ELSE 0, s |-> "", f |-> NoMembers]
JObj(members) == [t |-> "obj", v |-> 0, s |-> "", f |-> members]
JArr(elems) == [t |-> "arr", v |-> 0, s |-> "", f |-> elems]

\* cur && Object.prototype.hasOwnProperty.call(cur, k), for the keys used here
HasOwn(cur, k) == cur.t = "obj" /\ k \in DOMAIN cur.f


-----------------------------------------------------------------------------
(* Numeric helpers (decision.js:57-131) *)

clamp(x, lo, hi) == Max(lo, Min(hi, x))

\* toNonNegIntSigned is toNonNegInt without the floor at zero.
\* Every number of the model is finite, so the !Number.isFinite(x) branch
\* (which returns 0) is never taken: safeGet has already replaced non-finite
\* input by its fallback, and the arithmetic of the controller stays finite.
toNonNegIntSigned(x) == Round(x)

toNonNegInt(x) ==
    LET v == Round(x)
    IN  IF v < 0 THEN 0 ELSE v

RECURSIVE SumSeq(_)
SumSeq(arr) == IF arr = <<>> THEN 0 ELSE arr[1] + SumSeq(Tail(arr))

mean(arr) == IF Len(arr) = 0 THEN 0 ELSE RDiv(SumSeq(arr), Len(arr))

stdev(arr) ==
    IF Len(arr) < 2 THEN 0
    ELSE LET m == mean(arr)
             sq == [i \in 1..Len(arr) |-> Mul(arr[i] - m, arr[i] - m)]
             v == RDiv(SumSeq(sq), Len(arr) - 1)
         IN  Sqrt(v)

RECURSIVE Insert(_, _)
Insert(x, sorted) ==
    IF sorted = <<>> THEN <<x>>
    ELSE IF x <= sorted[1] THEN <<x>> \o sorted
    ELSE <<sorted[1]>> \o Insert(x, Tail(sorted))

\* [...arr].sort((x, y) => x - y): a sorted copy, arr itself is left alone
RECURSIVE SortAsc(_)
SortAsc(arr) == IF arr = <<>> THEN <<>> ELSE Insert(arr[1], SortAsc(Tail(arr)))

median(arr) ==
    IF Len(arr) = 0 THEN 0
    ELSE LET a == SortAsc(arr)
             mid == Len(a) \div 2     \* 0-based index, as in the code
         IN  IF Len(a) % 2 = 1 THEN a[mid + 1]
             ELSE RDiv(a[mid] + a[mid + 1], 2)

mad(arr) ==
    IF Len(arr) = 0 THEN 0
    ELSE LET m == median(arr)
             dev == [i \in 1..Len(arr) |-> Abs(arr[i] - m)]
         IN  median(dev)

\* clipScale without the MAD branch
clipScaleStdevOnly(hist) == stdev(hist)

\* 1.4826 * mdev when mdev > 0, else stdev(hist)   (decision.js:107)
clipScale(hist) ==
    LET mdev == mad(hist)
    IN  IF mdev > 0 THEN RDiv(14826 * mdev, 10000) ELSE stdev(hist)

\* out.slice(Math.max(0, i - window), i) for the 0-based position i = Len(out)
clipHist(out, i, window) ==
    LET start == Max(0, i - window)
    IN  SubSeq(out, start + 1, i)

\* One pass of the loop body of clipSeriesRolling: the value pushed for x
clipStep(out, x, window, k) ==
    LET hist == clipHist(out, Len(out), window)
    IN  IF Len(hist) < 3 THEN x
        ELSE LET m == median(hist)
                 scale == clipScale(hist)
                 lo == m - Mul(k, scale)
                 hi == m + Mul(k, scale)
             IN  clamp(x, lo, hi)

RECURSIVE clipLoop(_, _, _, _)
clipLoop(series, out, window, k) ==
    IF Len(out) = Len(series) THEN out
    ELSE clipLoop(series, Append(out, clipStep(out, series[Len(out) + 1], window, k)),
                  window, k)

clipSeriesRolling(series, window, k) == clipLoop(series, <<>>, window, k)

\* One pass of the loop body of adaptiveSES: the forecast after observing x
sesStep(f, x, p) ==
    LET err == x - f
        scale == Abs(f) + Q
        alpha == clamp(p.alphaBase + Mul(p.alphaK, Div(Abs(err), scale)),
                       p.alphaMin, p.alphaMax)
    IN  f + Mul(alpha, err)

RECURSIVE sesLoop(_, _, _, _)
sesLoop(series, i, f, p) ==
    IF i > Len(series) THEN f ELSE sesLoop(series, i + 1, sesStep(f, series[i], p), p)

adaptiveSES(series, p) ==
    IF Len(series) = 0 THEN 0 ELSE sesLoop(series, 2, series[1], p)

RECURSIVE safeGetFrom(_, _)
safeGetFrom(cur, path) ==
    IF path = <<>>
    THEN IF cur.t = "num" THEN cur.v ELSE 0
    ELSE IF HasOwn(cur, path[1]) THEN safeGetFrom(cur.f[path[1]], Tail(path))
    ELSE 0

\* safeGet(obj, path, 0): every call site passes the fallback 0
safeGet(obj, path) == safeGetFrom(obj, path)

-----------------------------------------------------------------------------
(* Module-level tables (decision.js:19-55) *)

ROLES == <<"retailer", "wholesaler", "distributor", "factory">>

RoleSet == {ROLES[i] : i \in 1..Len(ROLES)}

\* Fixed-point values; clipWindow is a count of array positions.
InitialPARAMS ==
    [retailer |->
        [L |-> 4 * Q,
         alphaBase |-> 550, alphaMin |-> 200, alphaMax |-> 850, alphaK |-> 350,
         smooth |-> 200,
         safetyWeeks |-> 1100, z |-> 1000,
         clipWindow |-> 0, clipK |-> 0,
         maxOrder |-> 350 * Q],
     wholesaler |->
        [L |-> 4 * Q,
         alphaBase |-> 400, alphaMin |-> 150, alphaMax |-> 750, alphaK |-> 250,
         smooth |-> 300,
         safetyWeeks |-> 1150, z |-> 1100,
         clipWindow |-> 6, clipK |-> 2300,
         maxOrder |-> 350 * Q],
     distributor |->
        [L |-> 4 * Q,
         alphaBase |-> 330, alphaMin |-> 120, alphaMax |-> 700, alphaK |-> 220,
         smooth |-> 350,
         safetyWeeks |-> 1200, z |-> 1150,
         clipWindow |-> 6, clipK |-> 2200,
         maxOrder |-> 380 * Q],
     factory |->
        [L |-> 4 * Q,
         alphaBase |-> 280, alphaMin |-> 100, alphaMax |-> 650, alphaK |-> 200,
         smooth |-> 400,
         safetyWeeks |-> 1250, z |-> 1200,
         clipWindow |-> 6, clipK |-> 2100,
         maxOrder |-> 420 * Q]]

-----------------------------------------------------------------------------
(* History extraction (decision.js:154-187) *)

roleField(w, role, field) == toNonNegInt(safeGet(w, <<"roles", role, field>>))

\* roleHistory reading the arrivals of the factory for every role
roleHistoryMixed(weeks, role) ==
    [inv      |-> [i \in 1..Len(weeks) |-> roleField(weeks[i], role, "inventory")],
     back     |-> [i \in 1..Len(weeks) |-> roleField(weeks[i], role, "backlog")],
     incOrd   |-> [i \in 1..Len(weeks) |-> roleField(weeks[i], role, "incoming_orders")],
     arrShip  |-> [i \in 1..Len(weeks) |-> roleField(weeks[i], "factory", "arriving_shipments")],
     myOrders |-> [i \in 1..Len(weeks) |->
                      toNonNegInt(safeGet(weeks[i], <<"orders", role>>))]]

roleHistory(weeks, role) ==
    [inv      |-> [i \in 1..Len(weeks) |-> roleField(weeks[i], role, "inventory")],
     back     |-> [i \in 1..Len(weeks) |-> roleField(weeks[i], role, "backlog")],
     incOrd   |-> [i \in 1..Len(weeks) |-> roleField(weeks[i], role, "incoming_orders")],
     arrShip  |-> [i \in 1..Len(weeks) |-> roleField(weeks[i], role, "arriving_shipments")],
     myOrders |-> [i \in 1..Len(weeks) |->
                      toNonNegInt(safeGet(weeks[i], <<"orders", role>>))]]

chooseSharedDemandSeries(weeks) ==
    [i \in 1..Len(weeks) |->
        toNonNegInt(safeGet(weeks[i], <<"roles", "retailer", "incoming_orders">>))]

-----------------------------------------------------------------------------
(* Pipeline estimate (decision.js:172-179) *)

pipeSeed(forecast, L) == Max(0, Round(Mul(L, forecast)))

\* pipeStep without the floor at zero
pipeStepOverdrawn(pipe, arrived, ordered) == pipe - arrived + ordered

pipeStep(pipe, arrived, ordered) == Max(0, pipe - arrived) + ordered

RECURSIVE pipeLoop(_, _, _, _)
pipeLoop(arrShip, myOrders, i, pipe) ==
    IF i > Len(arrShip) THEN pipe
    ELSE pipeLoop(arrShip, myOrders, i + 1,
                  pipeStep(pipe, arrShip[i], IF i <= Len(myOrders) THEN myOrders[i] ELSE 0))

estimatePipeline(arrShip, myOrders, forecast, L) ==
    pipeLoop(arrShip, myOrders, 1, pipeSeed(forecast, L))

-----------------------------------------------------------------------------
(* The per-role controller (decision.js:189-240) *)

\* arr.at(-1) ?? 0
lastOrZero(arr) == IF Len(arr) = 0 THEN 0 ELSE arr[Len(arr)]

\* Demand signal and upstream clipping (decision.js:194-199)
demandSignal(role, incOrd, mode, sharedDemandSeries, p) ==
    LET demandSeries == IF mode = "glassbox" THEN sharedDemandSeries ELSE incOrd
    IN  IF mode = "blackbox" /\ p.clipWindow # 0 /\ role # "retailer"
        THEN clipSeriesRolling(demandSeries, p.clipWindow, p.clipK)
        ELSE demandSeries

\* demandSeries.slice(Math.max(0, demandSeries.length - 8))
recentWindow(demandSeries) ==
    SubSeq(demandSeries, Max(0, Len(demandSeries) - 8) + 1, Len(demandSeries))

\* inventoryLevel with the backlog added instead of subtracted
inventoryLevelAdded(invNow, backNow) == invNow + backNow

inventoryLevel(invNow, backNow) == invNow - backNow

inventoryPosition(IL, pipe) == IL + pipe

safetyStock(p, forecast, sigma) ==
    Max(0, Round(Mul(p.safetyWeeks, forecast) + Mul(Mul(p.z, sigma), Sqrt(p.L + Q))))

targetInventoryPosition(p, forecast, safety) == Round(Mul(p.L + Q, forecast) + safety)

rawOrder(targetIP, IP) == Max(0, targetIP - IP)

\* smoothOrder with the two weights exchanged
smoothOrderSwapped(p, raw, prevOrder) == Mul(p.smooth, raw) + Mul(Q - p.smooth, prevOrder)

smoothOrder(p, raw, prevOrder) == Mul(Q - p.smooth, raw) + Mul(p.smooth, prevOrder)

maxUpStep(backNow, forecast) ==
    Max(10 * Q, Round(Mul(IF backNow > 0 THEN 6 * Q ELSE 4 * Q, Max(Q, forecast))))

maxDownStep(forecast) == Max(10 * Q, Round(Mul(2500, Max(Q, forecast))))

\* rateLimit that lets the smoothed order through
rateLimitOff(order, prevOrder, maxUp, maxDown) == order

rateLimit(order, prevOrder, maxUp, maxDown) ==
    clamp(order, prevOrder - maxDown, prevOrder + maxUp)

\* finalCap with the clamp into [0, maxOrder] left out
finalCapUnclamped(p, order) == toNonNegInt(order)

finalCap(p, order) == toNonNegInt(clamp(order, 0, p.maxOrder))

\* Lines 207-239: the order-up-to rule, smoothing, rate limit and caps, given
\* the history h, the demand series and its forecast and sigma.  The record
\* holds the locals of the call; .order is what computeOrderForRole returns.
orderUpTo(p, h, demandSeries, forecast, sigma) ==
    LET invNow == lastOrZero(h.inv)
        backNow == lastOrZero(h.back)
        IL == inventoryLevel(invNow, backNow)
        pipe == estimatePipeline(h.arrShip, h.myOrders, forecast, p.L)
        IP == inventoryPosition(IL, pipe)
        safety == safetyStock(p, forecast, sigma)
        targetIP == targetInventoryPosition(p, forecast, safety)
        raw == rawOrder(targetIP, IP)
        prevOrder == lastOrZero(h.myOrders)
        smoothed == smoothOrder(p, raw, prevOrder)
        maxUp == maxUpStep(backNow, forecast)
        maxDown == maxDownStep(forecast)
        limited == rateLimit(smoothed, prevOrder, maxUp, maxDown)
    IN  [h |-> h, demandSeries |-> demandSeries, forecast |-> forecast, sigma |-> sigma,
         invNow |-> invNow, backNow |-> backNow, IL |-> IL,
         pipeSeed |-> pipeSeed(forecast, p.L), pipe |-> pipe, IP |-> IP,
         safety |-> safety, targetIP |-> targetIP, raw |-> raw,
         prevOrder |-> prevOrder, smoothed |-> smoothed,
         maxUp |-> maxUp, maxDown |-> maxDown, limited |-> limited,
         order |-> finalCap(p, limited)]

\* Lines 201-205: forecast and recent variability of the demand series
forecastDemand(p, h, demandSeries) ==
    orderUpTo(p, h, demandSeries, adaptiveSES(demandSeries, p),
              stdev(recentWindow(demandSeries)))

\* Lines 193-199: the demand signal of the role
selectDemand(role, p, h, mode, sharedDemandSeries) ==
    forecastDemand(p, h, demandSignal(role, h.incOrd, mode, sharedDemandSeries, p))

computeOrderForRole(role, weeks, mode, sharedDemandSeries, params) ==
    selectDemand(role, params[role], roleHistory(weeks, role), mode, sharedDemandSeries)

-----------------------------------------------------------------------------
(* computeOrders (decision.js:242-254) *)

\* modeOf defaulting to glassbox: only "blackbox" selects the local series
modeOfDefaultShared(body) ==
    IF HasOwn(body, "mode") /\ body.f["mode"].t = "str" /\ body.f["mode"].s = "blackbox"
    THEN "blackbox" ELSE "glassbox"

\* (body && body.mode === "glassbox") ? "glassbox" : "blackbox"
modeOf(body) ==
    IF HasOwn(body, "mode") /\ body.f["mode"].t = "str" /\ body.f["mode"].s = "glassbox"
    THEN "glassbox" ELSE "blackbox"

\* Array.isArray(body?.weeks) ? body.weeks : []
weeksOf(body) ==
    IF HasOwn(body, "weeks") /\ body.f["weeks"].t = "arr" THEN body.f["weeks"].f ELSE <<>>

DefaultOrders == [r \in RoleSet |-> 10 * Q]

\* computeOrders with the empty-history return left out
computeOrdersNoFallback(body, params) ==
    LET mode == modeOf(body)
        weeks == weeksOf(body)
        sharedDemandSeries == chooseSharedDemandSeries(weeks)
        calls == [r \in RoleSet |->
                     computeOrderForRole(r, weeks, mode, sharedDemandSeries, params)]
    IN  [orders |-> [r \in RoleSet |-> calls[r].order], ran |-> ROLES, trace |-> calls]

\* What one call does: the orders returned, the roles computeOrderForRole was
\* called for (in order) and the locals of each of those calls.
computeOrders(body, params) ==
    LET mode == modeOf(body)
        weeks == weeksOf(body)
        sharedDemandSeries == chooseSharedDemandSeries(weeks)
        calls == [r \in RoleSet |->
                     computeOrderForRole(r, weeks, mode, sharedDemandSeries, params)]
    IN  IF Len(weeks) = 0
        THEN [orders |-> DefaultOrders, ran |-> <<>>, trace |-> NoMembers]
        ELSE [orders |-> [r \in RoleSet |-> calls[r].order],
              ran |-> ROLES,
              trace |-> calls]

-----------------------------------------------------------------------------
(* The request handler (decision.js:256-296) *)

NoRequest == [parse |-> "none", body |-> JNull]

NoResponse == [kind |-> "none", orders |-> NoMembers]

\* body && body.handshake === true
isHandshake(body) ==
    HasOwn(body, "handshake") /\ body.f["handshake"].t = "bool" /\ body.f["handshake"].v = 1

\* readJson throws on text that is not JSON: the catch answers with the
\* default orders and an error tag.  A handshake is answered with the identity
\* record.  Anything else goes through computeOrders.
Answer ==
    /\ pc = "received"
    /\ LET out == computeOrders(request.body, PARAMS)
       IN  IF request.parse = "throws"
           THEN /\ response' = [kind |-> "handled_exception", orders |-> DefaultOrders]
                /\ ran' = <<>>
                /\ trace' = NoMembers
           ELSE IF isHandshake(request.body)
           THEN /\ response' = [kind |-> "handshake", orders |-> NoMembers]
                /\ ran' = <<>>
                /\ trace' = NoMembers
           ELSE /\ response' = [kind |-> "orders", orders |-> out.orders]
                /\ ran' = out.ran
                /\ trace' = out.trace
    /\ pc' = "responded"

\* The handler writing a tuned smoothing weight back into the shared PARAMS
\* entry (p is a reference to PARAMS[role], not a copy)
HandleRetuning ==
    /\ Answer
    /\ PARAMS' = IF ran' = <<>> THEN PARAMS
                 ELSE [PARAMS EXCEPT !["retailer"].smooth =
                          IF trace'["retailer"].backNow > 0 THEN 100 ELSE 300]
    /\ UNCHANGED <<request, served>>

\* The handler: nothing at module level is written.
Handle ==
    /\ Answer
    /\ UNCHANGED <<PARAMS, request, served>>

\* A request arrives.
Receive(requests) ==
    /\ pc = "idle"
    /\ \E r \in requests : request' = r
    /\ pc' = "received"
    /\ UNCHANGED <<PARAMS, response, ran, trace, served>>

\* The answer has been sent and the request's locals are gone; the function
\* instance waits for the next request.
Close ==
    /\ pc = "responded"
    /\ pc' = "idle"
    /\ request' = NoRequest
    /\ response' = NoResponse
    /\ ran' = <<>>
    /\ trace' = NoMembers
    /\ UNCHANGED <<PARAMS, served>>

\* As Close, with the caller noting the answer it got for this request.
CloseLogged ==
    /\ pc = "responded"
    /\ pc' = "idle"
    /\ served' = IF request \in DOMAIN served THEN served
                 ELSE [r \in DOMAIN served \cup {request} |->
                          IF r = request THEN response ELSE served[r]]
    /\ request' = NoRequest
    /\ response' = NoResponse
    /\ ran' = <<>>
    /\ trace' = NoMembers
    /\ UNCHANGED PARAMS

-----------------------------------------------------------------------------
(* Requests *)

Absent == [t |-> "absent", v |-> 0, s |-> "", f |-> NoMembers]

\* The object with the members <<key, value>> of pairs, a member left out when
\* its value is Absent
ObjectOf(pairs) ==
    JObj([k \in {pairs[i][1] : i \in {n \in 1..Len(pairs) : pairs[n][2] # Absent}} |->
             pairs[CHOOSE i \in 1..Len(pairs) : pairs[i][1] = k][2]])

\* {mode: m, weeks: w}
Body(m, w) == ObjectOf(<<<<"mode", m>>, <<"weeks", w>>>>)

Parsed(body) == [parse |-> "ok", body |-> body]

Unparsable == [parse |-> "throws", body |-> JNull]

HandshakeRequest == Parsed(JObj([handshake |-> JBool(TRUE)]))

\* One role's entry of a week, in units
RoleSnap(c) ==
    JObj([inventory |-> JNum(c[1] * Q), backlog |-> JNum(c[2] * Q),
          incoming_orders |-> JNum(c[3] * Q), arriving_shipments |-> JNum(c[4] * Q)])

\* A week: <<inventory, backlog, incoming_orders, arriving_shipments, order>> per role
WeekOf(rt, wh, di, fa) ==
    JObj([roles |-> JObj([retailer |-> RoleSnap(rt), wholesaler |-> RoleSnap(wh),
                          distributor |-> RoleSnap(di), factory |-> RoleSnap(fa)]),
          orders |-> JObj([retailer |-> JNum(rt[5] * Q), wholesaler |-> JNum(wh[5] * Q),
                           distributor |-> JNum(di[5] * Q), factory |-> JNum(fa[5] * Q)])])

\* The weekly step of README.md (lines 43-62)
WeekReadme ==
    WeekOf(<<12, 0, 14, 8, 10>>, <<20, 0, 10, 12, 10>>,
           <<25, 0, 8, 10, 10>>, <<30, 0, 12, 15, 10>>)

\* Nothing moves
WeekQuiet ==
    WeekOf(<<0, 0, 0, 0, 0>>, <<0, 0, 0, 0, 0>>, <<0, 0, 0, 0, 0>>, <<0, 0, 0, 0, 0>>)

\* Stock-out: backlog everywhere, a demand spike and a large delivery upstream
WeekShortage ==
    WeekOf(<<0, 20, 16, 0, 0>>, <<0, 30, 50, 40, 0>>,
           <<0, 30, 50, 40, 0>>, <<0, 30, 50, 40, 0>>)

\* Full shelves after a very large order
WeekGlut ==
    WeekOf(<<40, 0, 9, 4, 30>>, <<45, 0, 12, 6, 500>>,
           <<45, 0, 12, 6, 500>>, <<45, 0, 12, 6, 500>>)

\* A trickle of demand with a small backlog
WeekTrickle ==
    WeekOf(<<5, 3, 2, 2, 2>>, <<6, 1, 1, 1, 1>>, <<6, 1, 1, 1, 1>>, <<6, 1, 1, 1, 1>>)

Snapshots == {WeekReadme, WeekQuiet, WeekShortage, WeekGlut, WeekTrickle}

MaxWeeks == 4

RECURSIVE SeqsUpTo(_, _)
SeqsUpTo(S, n) ==
    IF n = 0 THEN {<<>>}
    ELSE LET shorter == SeqsUpTo(S, n - 1)
         IN  shorter \cup {Append(w, x) : w \in {y \in shorter : Len(y) = n - 1}, x \in S}

Modes == {JStr("glassbox"), JStr("blackbox")}

OtherModes == {Absent, JStr("whitebox"), JNum(Q)}

\* weeks that is no array: computeOrders takes it as no history
NotAnArray == {Absent, JNull, JStr("weeks"), JNum(3 * Q), JObj(NoMembers)}

Requests ==
    {Parsed(Body(JStr("blackbox"), JArr(ws))) : ws \in SeqsUpTo(Snapshots, MaxWeeks)}
    \cup {Parsed(Body(JStr("glassbox"), JArr(ws))) :
             ws \in SeqsUpTo({WeekReadme, WeekShortage, WeekTrickle}, MaxWeeks)}
    \cup {Parsed(Body(m, JArr(ws))) : m \in OtherModes,
                                      ws \in SeqsUpTo({WeekReadme, WeekShortage}, MaxWeeks)}
    \cup {Parsed(Body(m, w)) : m \in Modes \cup OtherModes, w \in NotAnArray}
    \cup {Parsed(JNull), Parsed(JObj(NoMembers)), HandshakeRequest, Unparsable}

-----------------------------------------------------------------------------
(* Specification *)

Init ==
    /\ PARAMS = InitialPARAMS
    /\ pc = "idle"
    /\ request = NoRequest
    /\ response = NoResponse
    /\ ran = <<>>
    /\ trace = NoMembers
    /\ served = NoMembers

Next == Receive(Requests) \/ Handle \/ Close

Spec == Init /\ [][Next]_vars

\* A caller that repeats a handful of requests in any order and keeps the answers
FewRequests ==
    {Parsed(Body(JStr("blackbox"), JArr(<<WeekReadme>>))),
     Parsed(Body(JStr("glassbox"), JArr(<<WeekReadme, WeekShortage>>))),
     Parsed(Body(JStr("blackbox"), JArr(<<WeekShortage, WeekTrickle, WeekGlut, WeekReadme>>))),
     Parsed(Body(JStr("glassbox"), JArr(<<>>))),
     HandshakeRequest,
     Unparsable}

NextCalls == Receive(FewRequests) \/ Handle \/ CloseLogged

SpecCalls == Init /\ [][NextCalls]_vars

\* Histories with damaged entries.  A field is left out, null, a string, a
\* non-finite number, negative or fractional.
OddValues == {Absent, JNull, JStr("12"), JInf, JNum(-3 * Q), JNum(2500)}

\* A week whose roles all carry a in inventory and incoming_orders and b in
\* backlog and arriving_shipments, and whose orders are all a
OddWeek(a, b) ==
    LET entry == ObjectOf(<<<<"inventory", a>>, <<"backlog", b>>,
                            <<"incoming_orders", a>>, <<"arriving_shipments", b>>>>)
    IN  JObj([roles |-> JObj([r \in RoleSet |-> entry]),
              orders |-> ObjectOf(<<<<"retailer", a>>, <<"wholesaler", a>>,
                                    <<"distributor", a>>, <<"factory", a>>>>)])

\* Weeks that are no object, or lack roles, orders or a role's entry
BrokenWeeks ==
    {JNull, JNum(7 * Q),
     JObj([orders |-> WeekReadme.f["orders"]]),
     JObj([roles |-> WeekReadme.f["roles"]]),
     JObj([roles |-> JNull, orders |-> JStr("none")]),
     JObj([roles |-> JObj([retailer |-> RoleSnap(<<12, 0, 14, 8>>), factory |-> JNull]),
           orders |-> JObj([wholesaler |-> JNum(4400)])])}

OddWeeks ==
    {OddWeek(a, b) : a \in OddValues, b \in {JNum(4 * Q)}}
    \cup {OddWeek(a, a) : a \in OddValues}
    \cup BrokenWeeks

MaxOddWeeks == 2

OddRequests ==
    {Parsed(Body(m, JArr(ws))) : m \in Modes, ws \in SeqsUpTo(OddWeeks, MaxOddWeeks)}
    \cup {HandshakeRequest, Unparsable}

NextExtract == Receive(OddRequests) \/ Handle \/ Close

SpecExtract == Init /\ [][NextExtract]_vars

\* Histories longer than the clip window, and every short history, under
\* blackbox; short histories under glassbox
LongSnapshots == {WeekTrickle, WeekShortage}

MaxClipWeeks == 8

ClipRequests ==
    {Parsed(Body(JStr("blackbox"), JArr(ws))) : ws \in SeqsUpTo(LongSnapshots, MaxClipWeeks)}
    \cup {Parsed(Body(JStr("blackbox"), JArr(ws))) : ws \in SeqsUpTo(Snapshots, MaxWeeks)}
    \cup {Parsed(Body(JStr("glassbox"), JArr(ws))) :
             ws \in SeqsUpTo({WeekTrickle, WeekReadme, WeekShortage}, MaxWeeks)}

NextClip == Receive(ClipRequests) \/ Handle \/ Close

SpecClip == Init /\ [][NextClip]_vars

\* Short histories under both modes, for comparing a call with the call on a
\* history that differs in other roles' fields
MaxRoleWeeks == 3

RoleRequests ==
    {Parsed(Body(m, JArr(ws))) :
        m \in Modes, ws \in SeqsUpTo({WeekReadme, WeekShortage, WeekTrickle}, MaxRoleWeeks)}

NextRoles == Receive(RoleRequests) \/ Handle \/ Close

SpecRoles == Init /\ [][NextRoles]_vars

\* Blackbox histories in which every upstream role's incoming_orders is at one
\* level for the first weeks and at another from then on
SustainLevels == {1, 10, 50}

LevelWeek(x) ==
    WeekOf(<<12, 0, x, 8, 10>>, <<20, 0, x, 12, 10>>,
           <<20, 0, x, 12, 10>>, <<20, 0, x, 12, 10>>)

StepHistory(c, a, v, b) ==
    [i \in 1..(a + b) |-> IF i <= a THEN LevelWeek(c) ELSE LevelWeek(v)]

MaxSustainWeeks == 10

SustainRequests ==
    {Parsed(Body(JStr("blackbox"), JArr(StepHistory(c, a, v, n - a)))) :
        c \in SustainLevels, v \in SustainLevels,
        a \in 0..MaxSustainWeeks, n \in 0..MaxSustainWeeks}

NextSustain == Receive(SustainRequests) \/ Handle \/ Close

SpecSustain == Init /\ [][NextSustain]_vars

-----------------------------------------------------------------------------
(* Properties *)

\* The handler has answered a decision request through computeOrders.
Decided == pc = "responded" /\ response.kind = "orders"

\* The request's weeks member is an array with at least one element.
HasHistory ==
    /\ request.body.t = "obj"
    /\ "weeks" \in DOMAIN request.body.f
    /\ request.body.f["weeks"].t = "arr"
    /\ Len(request.body.f["weeks"].f) > 0

Weeks == request.body.f["weeks"].f

\* The request's mode member is the string "glassbox".
AsksGlassbox ==
    /\ request.body.t = "obj"
    /\ "mode" \in DOMAIN request.body.f
    /\ request.body.f["mode"] = JStr("glassbox")

\* C1: for every request with a non-empty weeks array the answer has an entry
\* for each of the four roles, and every entry is a whole number between 0 and
\* the role's maxOrder.
C1_OrdersInRange ==
    (Decided /\ HasHistory) =>
        /\ DOMAIN response.orders = {"retailer", "wholesaler", "distributor", "factory"}
        /\ \A r \in DOMAIN response.orders :
              /\ IsWhole(response.orders[r])
              /\ 0 <= response.orders[r]
              /\ response.orders[r] <= PARAMS[r].maxOrder

\* A decision in which the cap cut one role's order and another role's order
\* lies strictly inside its range.
C1_Witness ==
    /\ Decided /\ HasHistory
    /\ \E r \in RoleSet : /\ trace[r].limited > PARAMS[r].maxOrder
                          /\ response.orders[r] = PARAMS[r].maxOrder
    /\ \E r \in RoleSet : /\ 0 < response.orders[r]
                          /\ response.orders[r] < PARAMS[r].maxOrder

\* C2: with weeks absent, not an array or empty, the answer is 10 for every
\* role in either mode and computeOrderForRole is not called.
C2_EmptyHistoryFallback ==
    (Decided /\ ~HasHistory) =>
        /\ response.orders = [r \in {"retailer", "wholesaler", "distributor", "factory"} |-> 10 * Q]
        /\ ran = <<>>
        /\ trace = NoMembers

\* A glassbox request whose weeks member is a string was answered.
C2_Witness ==
    /\ Decided
    /\ AsksGlassbox
    /\ "weeks" \in DOMAIN request.body.f
    /\ request.body.f["weeks"].t = "str"
    /\ response.orders["factory"] = 10 * Q

\* The worked scenario: blackbox, one week, retailer inventory 12, backlog 0,
\* incoming_orders 14, arriving_shipments 8, previous retailer order 10.
WorkedScenario ==
    /\ Decided /\ HasHistory /\ ~AsksGlassbox
    /\ Len(Weeks) = 1
    /\ safeGet(Weeks[1], <<"roles", "retailer", "inventory">>) = 12 * Q
    /\ safeGet(Weeks[1], <<"roles", "retailer", "backlog">>) = 0
    /\ safeGet(Weeks[1], <<"roles", "retailer", "incoming_orders">>) = 14 * Q
    /\ safeGet(Weeks[1], <<"roles", "retailer", "arriving_shipments">>) = 8 * Q
    /\ safeGet(Weeks[1], <<"orders", "retailer">>) = 10 * Q

IncomingOf(role) == roleHistory(Weeks, role).incOrd

\* C4: the demand signal depends on the mode flag alone.  Under "glassbox"
\* every role forecasts from the retailer's incoming_orders series; under
\* "blackbox", no mode or any other value each role forecasts from its own
\* incoming_orders series, clipped for the upstream roles.
C4_ModeSelectsSignal ==
    (Decided /\ HasHistory) =>
        \A r \in RoleSet :
            LET own == IncomingOf(r)
                expected ==
                    IF AsksGlassbox THEN IncomingOf("retailer")
                    ELSE IF r = "retailer" THEN own
                    ELSE clipSeriesRolling(own, PARAMS[r].clipWindow, PARAMS[r].clipK)
            IN  /\ trace[r].demandSeries = expected
                /\ trace[r].forecast = adaptiveSES(expected, PARAMS[r])

\* A glassbox decision over at least two weeks in which an upstream role's own
\* series differs from the retailer's and the retailer's was used.
C4_Witness ==
    /\ Decided /\ HasHistory /\ AsksGlassbox
    /\ Len(Weeks) >= 2
    /\ IncomingOf("wholesaler") # IncomingOf("retailer")
    /\ trace["wholesaler"].demandSeries = IncomingOf("retailer")
    /\ trace["wholesaler"].forecast # adaptiveSES(IncomingOf("wholesaler"), PARAMS["wholesaler"])

\* C5: two calls with the same request get the same answer whatever was
\* asked before or in between, and no call changes module-level state.
C5_SameRequestSameAnswer ==
    /\ PARAMS = InitialPARAMS
    /\ (pc = "responded" /\ request \in DOMAIN served) => response = served[request]

\* A decision over a history is answered a second time after at least two
\* other requests were served.
C5_Witness ==
    /\ pc = "responded"
    /\ request \in DOMAIN served
    /\ Cardinality(DOMAIN served) >= 3
    /\ response.kind = "orders"
    /\ ran = ROLES
    /\ response = served[request]

\* The member k of the JSON value x, Absent when x is no object or lacks k
Member(x, k) == IF x.t = "obj" /\ k \in DOMAIN x.f THEN x.f[k] ELSE Absent

\* What extraction must yield for a leaf: a finite non-negative number rounded,
\* anything else 0
Extracted(leaf) == IF leaf.t = "num" /\ leaf.v > 0 THEN Round(leaf.v) ELSE 0

\* C6: extraction never fails.  Each of the five series of every role has one
\* element per week, in week order; a field that is missing, non-numeric,
\* non-finite or negative (also under a missing roles or orders object or a
\* null week) is 0; every element is a whole number >= 0.
C6_ExtractionTotal ==
    (pc = "responded" /\ request.parse = "ok" /\ HasHistory) =>
        /\ response.kind = "orders"
        /\ \A r \in RoleSet :
              LET h == trace[r].h
                  entry(i) == Member(Member(Weeks[i], "roles"), r)
              IN  /\ \A series \in {h.inv, h.back, h.incOrd, h.arrShip, h.myOrders} :
                        /\ Len(series) = Len(Weeks)
                        /\ \A i \in 1..Len(series) : IsWhole(series[i]) /\ series[i] >= 0
                  /\ \A i \in 1..Len(Weeks) :
                        /\ h.inv[i] = Extracted(Member(entry(i), "inventory"))
                        /\ h.back[i] = Extracted(Member(entry(i), "backlog"))
                        /\ h.incOrd[i] = Extracted(Member(entry(i), "incoming_orders"))
                        /\ h.arrShip[i] = Extracted(Member(entry(i), "arriving_shipments"))
                        /\ h.myOrders[i] = Extracted(Member(Member(Weeks[i], "orders"), r))

\* A decision over a null week followed by a week with negative inventory.
C6_Witness ==
    /\ Decided /\ HasHistory
    /\ Len(Weeks) = 2
    /\ Weeks[1] = JNull
    /\ Member(Member(Member(Weeks[2], "roles"), "retailer"), "inventory") = JNum(-3 * Q)
    /\ trace["retailer"].h.inv = <<0, 0>>
    /\ trace["retailer"].h.back = <<0, 4 * Q>>

\* The series a role's forecaster would get without clipping
Unclipped(role) == IF AsksGlassbox THEN IncomingOf("retailer") ELSE IncomingOf(role)

\* The values already emitted in the window [i - window, i) before position i
\* (positions counted from 1 here)
Emitted(out, i, window) == SubSeq(out, Max(1, i - window), i - 1)

\* C7: under blackbox the series of wholesaler, distributor and factory is
\* clipped position by position.  A position with fewer than 3 emitted values
\* in its window is the raw value; any other lies in [m - k*scale, m + k*scale]
\* with m the median and scale 1.4826*MAD (the sample standard deviation when
\* MAD is 0) of the emitted values, and is the raw value clamped into that
\* interval, so a raw value above the interval is lowered.  The retailer's
\* series and every glassbox series are the raw series.
C7_ClippedPositionwise ==
    (Decided /\ HasHistory) =>
        \A r \in RoleSet :
            LET raw == Unclipped(r)
                out == trace[r].demandSeries
                window == PARAMS[r].clipWindow
                k == PARAMS[r].clipK
            IN  IF AsksGlassbox \/ r = "retailer"
                THEN out = raw
                ELSE /\ Len(out) = Len(raw)
                     /\ \A i \in 1..Len(out) :
                           LET hist == Emitted(out, i, window)
                               sorted == SortAsc(hist)
                               n == Len(hist)
                               m == IF n % 2 = 1 THEN sorted[(n + 1) \div 2]
                                    ELSE RDiv(sorted[n \div 2] + sorted[n \div 2 + 1], 2)
                               MAD == median([j \in 1..n |-> Abs(hist[j] - m)])
                               scale == IF MAD > 0 THEN RDiv(14826 * MAD, 10000)
                                        ELSE stdev(hist)
                               lo == m - Mul(k, scale)
                               hi == m + Mul(k, scale)
                           IN  IF n < 3 THEN out[i] = raw[i]
                               ELSE /\ lo <= out[i] /\ out[i] <= hi
                                    /\ raw[i] > hi => out[i] = hi /\ out[i] < raw[i]
                                    /\ raw[i] < lo => out[i] = lo /\ out[i] > raw[i]
                                    /\ (lo <= raw[i] /\ raw[i] <= hi) => out[i] = raw[i]

\* The wholesaler's eighth week brings 50; its window is the six emitted
\* values before it, not the whole prefix, and the forecaster gets less than 50.
C7_Witness ==
    /\ Decided /\ HasHistory /\ ~AsksGlassbox
    /\ Len(Weeks) = 8
    /\ LET raw == Unclipped("wholesaler")
           out == trace["wholesaler"].demandSeries
           hist == Emitted(out, 8, PARAMS["wholesaler"].clipWindow)
       IN  /\ raw[8] = 50 * Q
           /\ out[8] < raw[8]
           /\ Len(hist) = 6
           /\ raw[1] = 50 * Q
           /\ out[8] < median(SubSeq(out, 1, 7)) +
                          Mul(PARAMS["wholesaler"].clipK, stdev(SubSeq(out, 1, 7)))

\* The pipeline estimate of role after the first n weeks of the history
PipeAfter(role, n) ==
    LET t == trace[role]
    IN  estimatePipeline(SubSeq(t.h.arrShip, 1, n), SubSeq(t.h.myOrders, 1, n),
                         t.forecast, PARAMS[role].L)

WithBacklog(weeks, role, b) ==
    [weeks EXCEPT ![Len(weeks)] =
        [@ EXCEPT !.f = [@ EXCEPT !["roles"] =
            [@ EXCEPT !.f = [@ EXCEPT ![role] =
                [@ EXCEPT !.f = [@ EXCEPT !["backlog"] = JNum(b)]]]]]]]

\* The decision of role over the history with its current backlog set to b
DecisionWithBacklog(role, b) ==
    LET weeks == WithBacklog(Weeks, role, b)
    IN  computeOrderForRole(role, weeks, modeOf(request.body),
                            chooseSharedDemandSeries(weeks), PARAMS)

BacklogLevels == {0, Q, 40 * Q}

\* Same forecast, sigma, pipeline estimate and current inventory
SameButBacklog(a, b) ==
    /\ a.forecast = b.forecast /\ a.sigma = b.sigma
    /\ a.pipe = b.pipe /\ a.invNow = b.invNow

\* C9: of two histories of a role with the same forecast, sigma, pipeline
\* estimate and current inventory, the one with the larger current backlog
\* has the raw order max(0, target position - inventory position) that is
\* greater or equal.
C9_BacklogMonotone ==
    (Decided /\ HasHistory) =>
        \A r \in RoleSet : \A b \in BacklogLevels :
            LET t == trace[r]
                u == DecisionWithBacklog(r, b)
            IN  /\ t.raw = Max(0, t.targetIP - t.IP)
                /\ SameButBacklog(t, u) =>
                      /\ u.backNow >= t.backNow => u.raw >= t.raw
                      /\ u.backNow <= t.backNow => u.raw <= t.raw

\* A larger backlog on the same history otherwise raises the distributor's raw
\* order strictly.
C9_Witness ==
    /\ Decided /\ HasHistory
    /\ \E b \in BacklogLevels :
          LET t == trace["distributor"]
              u == DecisionWithBacklog("distributor", b)
          IN  /\ SameButBacklog(t, u)
              /\ u.backNow > t.backNow
              /\ t.backNow > 0
              /\ u.raw > t.raw

\* C10 as stated: the order is at most previous + maxUp and, unless the cap
\* binds, at least max(0, previous - maxDown); the steps are max(1, forecast)
\* scaled and floored at 10; maxUp >= maxDown; and maxUp is larger with a
\* positive backlog than with none.
C10_AsStated ==
    (Decided /\ HasHistory) =>
        \A r \in RoleSet :
            LET t == trace[r]
            IN  /\ response.orders[r] <= t.prevOrder + t.maxUp
                /\ t.limited <= PARAMS[r].maxOrder =>
                      response.orders[r] >= Max(0, t.prevOrder - t.maxDown)
                /\ t.maxUp >= t.maxDown
                /\ maxUpStep(Q, t.forecast) > maxUpStep(0, t.forecast)

\* C10 amended: as stated, except that maxUp with a positive backlog is at
\* least maxUp with none, and larger exactly when round(6 * max(1, forecast))
\* exceeds the minimum step of 10.
C10_RateLimited ==
    (Decided /\ HasHistory) =>
        \A r \in RoleSet :
            LET t == trace[r]
                rate == Max(Q, t.forecast)
            IN  /\ response.orders[r] <= t.prevOrder + t.maxUp
                /\ t.limited <= PARAMS[r].maxOrder =>
                      response.orders[r] >= Max(0, t.prevOrder - t.maxDown)
                /\ t.prevOrder = lastOrZero(roleHistory(Weeks, r).myOrders)
                /\ t.maxUp = Max(10 * Q, Round(Mul(IF t.backNow > 0 THEN 6 * Q ELSE 4 * Q, rate)))
                /\ t.maxDown = Max(10 * Q, Round(Mul(2500, rate)))
                /\ t.maxUp >= t.maxDown
                /\ maxUpStep(Q, t.forecast) >= maxUpStep(0, t.forecast)
                /\ (maxUpStep(Q, t.forecast) > maxUpStep(0, t.forecast))
                      <=> (Round(Mul(6 * Q, rate)) > 10 * Q)

\* With a backlog the wholesaler's smoothed order is above previous + maxUp
\* and the answer is previous + maxUp, a step no backlog would have allowed.
C10_Witness ==
    /\ Decided /\ HasHistory
    /\ LET t == trace["wholesaler"]
       IN  /\ t.backNow > 0
           /\ t.smoothed > t.prevOrder + t.maxUp
           /\ response.orders["wholesaler"] = t.prevOrder + t.maxUp
           /\ t.maxUp > maxUpStep(0, t.forecast)
           /\ response.orders["wholesaler"] < PARAMS["wholesaler"].maxOrder

\* The week w with the entry and the order of every role but role taken from
\* the week alt
Graft(w, alt, role) ==
    JObj([roles |-> JObj([q \in RoleSet |->
                        IF q = role THEN w.f["roles"].f[q] ELSE alt.f["roles"].f[q]]),
          orders |-> JObj([q \in RoleSet |->
                        IF q = role THEN w.f["orders"].f[q] ELSE alt.f["orders"].f[q]])])

\* Graft, except that the retailer's incoming_orders stays that of w
GraftKeepingDemand(w, alt, role) ==
    LET g == Graft(w, alt, role)
        demand == w.f["roles"].f["retailer"].f["incoming_orders"]
    IN  [g EXCEPT !.f = [@ EXCEPT !["roles"] =
            [@ EXCEPT !.f = [@ EXCEPT !["retailer"] =
                [@ EXCEPT !.f = [@ EXCEPT !["incoming_orders"] = demand]]]]]]

\* The orders computeOrders returns for the request's mode and the history weeks
OrdersFor(weeks) ==
    computeOrders(Body(request.body.f["mode"], JArr(weeks)), PARAMS).orders

\* What the other roles' fields are replaced by
OtherRoleData == {WeekGlut, WeekQuiet, WeekShortage}

\* C11: under blackbox, a history that differs from the request's only in
\* other roles' fields and orders gives the role the same order; under
\* glassbox the same holds when the retailer's incoming_orders series is
\* kept as well.
C11_RoleIndependence ==
    (Decided /\ HasHistory) =>
        \A r \in RoleSet : \A alt \in OtherRoleData :
            LET others == [i \in 1..Len(Weeks) |-> Graft(Weeks[i], alt, r)]
                othersSameDemand ==
                    [i \in 1..Len(Weeks) |-> GraftKeepingDemand(Weeks[i], alt, r)]
            IN  IF AsksGlassbox
                THEN OrdersFor(othersSameDemand)[r] = response.orders[r]
                ELSE /\ OrdersFor(others)[r] = response.orders[r]
                     /\ OrdersFor(othersSameDemand)[r] = response.orders[r]

\* Under blackbox, replacing the other roles' fields changes the history and
\* the factory's order, and leaves the wholesaler's order, which is neither
\* zero nor the cap, as it was.
C11_Witness ==
    /\ Decided /\ HasHistory /\ ~AsksGlassbox
    /\ Len(Weeks) >= 2
    /\ \E alt \in OtherRoleData :
          LET others == [i \in 1..Len(Weeks) |-> Graft(Weeks[i], alt, "wholesaler")]
          IN  /\ others # Weeks
              /\ OrdersFor(others)["factory"] # response.orders["factory"]
              /\ OrdersFor(others)["wholesaler"] = response.orders["wholesaler"]
              /\ response.orders["wholesaler"] > 0
              /\ response.orders["wholesaler"] < PARAMS["wholesaler"].maxOrder

\* Every element of arr from position i on is v
ConstantFrom(arr, i, v) == \A j \in i..Len(arr) : arr[j] = v

\* C12: for a clipped role whose raw demand has been at one value v for more
\* weeks than the clip window is long, so that the window of emitted values
\* was emitted entirely under v, a window that has become constant does not
\* hold the clipped series at an older value: the last clipped value is v.
C12_AsStated ==
    (Decided /\ HasHistory /\ ~AsksGlassbox) =>
        \A r \in RoleSet \ {"retailer"} :
            LET raw == IncomingOf(r)
                out == trace[r].demandSeries
                n == Len(raw)
                window == PARAMS[r].clipWindow
                hist == Emitted(out, n, window)
            IN  \A i \in 1..n :
                    ( /\ n - i >= window
                      /\ ConstantFrom(raw, i, raw[n])
                      /\ mad(hist) = 0 /\ stdev(hist) = 0 )
                    => out[n] = raw[n]

=============================================================================
